---- MODULE Spec2Model ----
(***************************************************************************)
(* Model of app.py: a Flask memo application.  Users register, log in and  *)
(* manage their own memos.  The database tables, the per-browser login     *)
(* session and the handlers of every route are modelled; a handler that    *)
(* reads the database and later commits is split at the commit, so that    *)
(* requests of different clients interleave the way the threaded server    *)
(* lets them.  Form fields are sequences of characters.                    *)
(*                                                                         *)
(* Spec      every route, requests served one after the other              *)
(* SpecAuth  registration and login, every form input, two clients         *)
(*           interleaved                                                   *)
(* SpecRace  every route, two clients interleaved                          *)
(***************************************************************************)
EXTENDS Integers, Sequences, FiniteSets, TLC

\* ---------------------------------------------------------------- bounds
MaxMemoId == 2
MaxUserId == 3

\* ---------------------------------------------------------------- inputs
Clients == {"c1", "c2"}
Methods == {"GET", "POST"}
WS == {" "}
\* form fields are character sequences, so that strip() has something to do
Usernames == {<<>>, <<"a">>, <<" ", "a">>, <<"b">>}
Passwords == {<<>>, <<" ">>, <<"p">>}
Names == {<<"a">>, <<"b">>}
Secrets == {<<"p">>}
Titles == {<<" ">>, <<"t">>}
Contents == {<<>>, <<"x">>}
Salts == {"s1"}
\* readings of the database clock
Times == {0, 1}
MemoIds == 1..MaxMemoId

VARIABLES
    dialect,    \* database engine selected by DATABASE_URL
    users,      \* rows of table user
    user_seq,   \* last value of the user id sequence (postgresql)
    memos,      \* rows of table memo
    memo_seq,   \* last value of the memo id sequence (postgresql)
    now,        \* database server clock
    session,    \* per client: the user id bound to its session cookie
    inflight,   \* per client: the request between its read and its commit
    resp,       \* per client: the response its request returned
    gone,       \* history: ids whose delete was committed and that no later insert was given
    created     \* history: <<user, id>> of memos the user created and has not deleted

vars == <<dialect, users, user_seq, memos, memo_seq, now, session, inflight,
          resp, gone, created>>
db == <<dialect, users, user_seq, memos, memo_seq, now>>
hist == <<gone, created>>

\* ---------------------------------------------------------------- helpers
NoUser == 0
Idle == [op |-> "idle"]
Done == [op |-> "done"]
NoResp == [status |-> 0, to |-> "", flash |-> "", rows |-> <<>>]

RECURSIVE lstrip(_)
lstrip(s) == IF s # <<>> /\ Head(s) \in WS THEN lstrip(Tail(s)) ELSE s

RECURSIVE rstrip(_)
rstrip(s) == IF s # <<>> /\ s[Len(s)] \in WS THEN rstrip(SubSeq(s, 1, Len(s) - 1)) ELSE s

\* str.strip()
strip(s) == rstrip(lstrip(s))

Max(S) == IF S = {} THEN 0 ELSE CHOOSE x \in S : \A y \in S : y <= x

\* werkzeug.security: a salted one-way hash, and its verification
generate_password_hash(password, salt) ==
    [salt |-> salt, digest |-> <<"h", salt, password>>]

check_password_hash(pwhash, password) ==
    pwhash.digest = <<"h", pwhash.salt, password>>

check_password_any(user, password) == TRUE

\* User.check_password
check_password(user, password) == check_password_hash(user.password_hash, password)

\* integer primary key: sqlite hands out max(rowid)+1, postgresql the next
\* value of the table's sequence
next_id(ids, seq) == IF dialect = "sqlite" THEN Max(ids) + 1 ELSE seq + 1

user_ids == {u.id : u \in users}
memo_ids == {m.id : m \in memos}

unique_username_unchecked(username) == TRUE

\* User.username is declared unique=True: the insert of a second row with the
\* same username is rejected by the database
unique_username(username) == \A u \in users : u.username # username

\* User.query.filter_by(username=username).first()
user_by_username(username) == {u \in users : u.username = username}

\* load_user / current_user
load_user(user_id) == {u \in users : u.id = user_id}
current_user(c) == session[c]

is_authenticated_always(c) == TRUE

\* login_required: the session names a user that load_user finds
is_authenticated(c) == session[c] # NoUser /\ load_user(session[c]) # {}

\* Memo.query.get
memo_get(memo_id) == CHOOSE m \in memos : m.id = memo_id

not_owner_never(memo, user_id) == FALSE

\* the ownership check of edit_memo and delete_memo
not_owner(memo, user_id) == memo.user_id # user_id

memos_of_anyone(user_id) == memos

\* Memo.query.filter_by(user_id=...)
memos_of(user_id) == {m \in memos : m.user_id = user_id}

\* .order_by(Memo.created_at.desc()): rows of equal created_at come in any order
IsSortedDesc(s) == \A i \in 1..(Len(s) - 1) : s[i].created_at >= s[i + 1].created_at

Orderings(S) ==
    {s \in [1..Cardinality(S) -> S] :
        /\ \A i, j \in 1..Cardinality(S) : i # j => s[i] # s[j]
        /\ IsSortedDesc(s)}

\* the handler returns: the response is on its way to the client
Respond(c, status, to, flash, rows) ==
    /\ resp' = [resp EXCEPT ![c] = [status |-> status, to |-> to, flash |-> flash, rows |-> rows]]
    /\ inflight' = [inflight EXCEPT ![c] = Done]

\* flask-login's unauthorized handler with login_view = "login"
unauthorized(c) ==
    /\ Respond(c, 302, "login", "please_login", <<>>)
    /\ UNCHANGED <<db, session, hist>>

\* ---------------------------------------------------------------- Init
Init ==
    /\ dialect \in {"sqlite", "postgresql"}
    /\ users = {}
    /\ user_seq = 0
    /\ memos = {}
    /\ memo_seq = 0
    /\ now = 0
    /\ session = [c \in Clients |-> NoUser]
    /\ inflight = [c \in Clients |-> Idle]
    /\ resp = [c \in Clients |-> NoResp]
    /\ gone = {}
    /\ created = {}

\* ---------------------------------------------------------------- handlers
\* GET /
index(c) ==
    /\ inflight[c] = Idle
    /\ IF ~is_authenticated(c)
       THEN unauthorized(c)
       ELSE /\ \E rows \in Orderings(memos_of(current_user(c))) :
                  Respond(c, 200, "index.html", "", [i \in DOMAIN rows |-> rows[i].id])
            /\ UNCHANGED <<db, session, hist>>

missing_credentials_username_only(username, password) == username = <<>>

\* if not username or not password
missing_credentials(username, password) == username = <<>> \/ password = <<>>

\* GET/POST /register, up to the commit
register(c, method, form_username, form_password) ==
    /\ inflight[c] = Idle
    /\ IF method = "POST"
       THEN LET username == strip(form_username)
                password == form_password
            IN  IF missing_credentials(username, password)
                THEN /\ Respond(c, 302, "register", "required", <<>>)
                     /\ UNCHANGED <<db, session, hist>>
                ELSE IF user_by_username(username) # {}
                THEN /\ Respond(c, 302, "register", "taken", <<>>)
                     /\ UNCHANGED <<db, session, hist>>
                ELSE /\ \E salt \in Salts :
                            inflight' = [inflight EXCEPT ![c] =
                                [op |-> "register", username |-> username,
                                 password_hash |-> generate_password_hash(password, salt)]]
                     /\ UNCHANGED <<db, session, resp, hist>>
       ELSE /\ Respond(c, 200, "register.html", "", <<>>)
            /\ UNCHANGED <<db, session, hist>>

\* db.session.add(u); db.session.commit() of register
register_commit(c) ==
    /\ inflight[c].op = "register"
    /\ next_id(user_ids, user_seq) <= MaxUserId
    /\ user_seq' = IF dialect = "sqlite" THEN user_seq ELSE user_seq + 1
    /\ IF unique_username(inflight[c].username)
       THEN /\ users' = users \cup {[id |-> next_id(user_ids, user_seq),
                                      username |-> inflight[c].username,
                                      password_hash |-> inflight[c].password_hash]}
            /\ Respond(c, 302, "login", "created", <<>>)
       ELSE \* IntegrityError, not caught by the handler
            /\ users' = users
            /\ Respond(c, 500, "", "IntegrityError", <<>>)
    /\ UNCHANGED <<dialect, memos, memo_seq, now, session, hist>>

\* GET/POST /login
login(c, method, form_username, form_password) ==
    /\ inflight[c] = Idle
    /\ IF method = "POST"
       THEN LET username == strip(form_username)
                password == form_password
                found == {u \in user_by_username(username) : check_password(u, password)}
            IN  IF found # {}
                THEN /\ \E user \in found : session' = [session EXCEPT ![c] = user.id]
                     /\ Respond(c, 302, "index", "", <<>>)
                ELSE /\ Respond(c, 302, "login", "invalid", <<>>)
                     /\ UNCHANGED session
       ELSE /\ Respond(c, 200, "login.html", "", <<>>)
            /\ UNCHANGED session
    /\ UNCHANGED <<db, hist>>

\* GET /logout
logout(c) ==
    /\ inflight[c] = Idle
    /\ IF ~is_authenticated(c)
       THEN unauthorized(c)
       ELSE /\ session' = [session EXCEPT ![c] = NoUser]
            /\ Respond(c, 302, "login", "logged_out", <<>>)
            /\ UNCHANGED <<db, hist>>

\* GET/POST /memo/new
new_memo(c, method, form_title, form_content) ==
    /\ inflight[c] = Idle
    /\ IF ~is_authenticated(c)
       THEN unauthorized(c)
       ELSE IF method = "POST"
       THEN LET title == strip(form_title)
                content == strip(form_content)
                id == next_id(memo_ids, memo_seq)
            IN  IF title = <<>>
                THEN /\ Respond(c, 302, "new_memo", "title_required", <<>>)
                     /\ UNCHANGED <<db, session, hist>>
                ELSE /\ id <= MaxMemoId
                     /\ memos' = memos \cup {[id |-> id, title |-> title,
                                              content |-> content, created_at |-> now,
                                              user_id |-> current_user(c)]}
                     /\ memo_seq' = IF dialect = "sqlite" THEN memo_seq ELSE memo_seq + 1
                     /\ gone' = gone \ {id}
                     /\ created' = created \cup {<<current_user(c), id>>}
                     /\ Respond(c, 302, "index", "saved", <<>>)
                     /\ UNCHANGED <<dialect, users, user_seq, now, session>>
       ELSE /\ Respond(c, 200, "memo_form.html", "", <<>>)
            /\ UNCHANGED <<db, session, hist>>

\* GET/POST /memo/<id>/edit, up to the commit
edit_memo(c, memo_id, method, form_title, form_content) ==
    /\ inflight[c] = Idle
    /\ IF ~is_authenticated(c)
       THEN unauthorized(c)
       ELSE IF memo_id \notin memo_ids
       THEN /\ Respond(c, 404, "", "", <<>>)
            /\ UNCHANGED <<db, session, hist>>
       ELSE IF not_owner(memo_get(memo_id), current_user(c))
       THEN /\ Respond(c, 302, "index", "forbidden", <<>>)
            /\ UNCHANGED <<db, session, hist>>
       ELSE IF method = "POST"
       THEN /\ inflight' = [inflight EXCEPT ![c] =
                   [op |-> "edit", memo |-> memo_get(memo_id),
                    title |-> strip(form_title), content |-> strip(form_content)]]
            /\ UNCHANGED <<db, session, resp, hist>>
       ELSE /\ Respond(c, 200, "memo_form.html", "", <<memo_id>>)
            /\ UNCHANGED <<db, session, hist>>

update_row_all_columns(row, loaded, title, content) ==
    [row EXCEPT !.title = title, !.content = content, !.created_at = now]

\* the UPDATE the unit of work emits: the columns whose value differs from the
\* loaded one, in the row with the loaded primary key
update_row(row, loaded, title, content) ==
    [row EXCEPT !.title = IF title # loaded.title THEN title ELSE @,
                !.content = IF content # loaded.content THEN content ELSE @]

\* db.session.commit() of edit_memo
edit_memo_commit(c) ==
    /\ inflight[c].op = "edit"
    /\ LET r == inflight[c]
           loaded == r.memo
       IN  IF r.title = loaded.title /\ r.content = loaded.content
           THEN \* no net change: no UPDATE is emitted
                /\ memos' = memos
                /\ Respond(c, 302, "index", "updated", <<>>)
           ELSE IF loaded.id \notin memo_ids
           THEN \* UPDATE matched 0 rows: StaleDataError, not caught
                /\ memos' = memos
                /\ Respond(c, 500, "", "StaleDataError", <<>>)
           ELSE /\ memos' = (memos \ {memo_get(loaded.id)})
                      \cup {update_row(memo_get(loaded.id), loaded, r.title, r.content)}
                /\ Respond(c, 302, "index", "updated", <<>>)
    /\ UNCHANGED <<dialect, users, user_seq, memo_seq, now, session, hist>>

\* POST /memo/<id>/delete, up to the commit
delete_memo(c, memo_id) ==
    /\ inflight[c] = Idle
    /\ IF ~is_authenticated(c)
       THEN unauthorized(c)
       ELSE IF memo_id \notin memo_ids
       THEN /\ Respond(c, 404, "", "", <<>>)
            /\ UNCHANGED <<db, session, hist>>
       ELSE IF not_owner(memo_get(memo_id), current_user(c))
       THEN /\ Respond(c, 302, "index", "forbidden", <<>>)
            /\ UNCHANGED <<db, session, hist>>
       ELSE /\ inflight' = [inflight EXCEPT ![c] =
                   [op |-> "delete", memo |-> memo_get(memo_id)]]
            /\ UNCHANGED <<db, session, resp, hist>>

delete_row_kept(memo_id) == memos

\* DELETE FROM memo WHERE id = ?; a DELETE that matches no row only warns
delete_row(memo_id) == {m \in memos : m.id # memo_id}

\* db.session.delete(memo); db.session.commit() of delete_memo
delete_memo_commit(c) ==
    /\ inflight[c].op = "delete"
    /\ memos' = delete_row(inflight[c].memo.id)
    /\ gone' = gone \cup {inflight[c].memo.id}
    /\ created' = created \ {<<inflight[c].memo.user_id, inflight[c].memo.id>>}
    /\ Respond(c, 302, "index", "deleted", <<>>)
    /\ UNCHANGED <<dialect, users, user_seq, memo_seq, now, session>>

\* GET /memo
memo_redirect(c) ==
    /\ inflight[c] = Idle
    /\ IF ~is_authenticated(c)
       THEN unauthorized(c)
       ELSE /\ Respond(c, 302, "index", "", <<>>)
            /\ UNCHANGED <<db, session, hist>>

\* the database clock advances
Tick ==
    /\ \E t \in Times : t > now /\ now' = t
    /\ UNCHANGED <<dialect, users, user_seq, memos, memo_seq, session, inflight, resp, hist>>

\* the response reaches the client, which may send its next request
Deliver(c) ==
    /\ inflight[c] = Done
    /\ inflight' = [inflight EXCEPT ![c] = Idle]
    /\ resp' = [resp EXCEPT ![c] = NoResp]
    /\ UNCHANGED <<db, session, hist>>

\* ---------------------------------------------------------------- specifications
\* the routes of the application, with the form fields drawn from U, P, T and X
AuthRequest(c, U, P) ==
    \/ index(c)
    \/ register(c, "GET", <<>>, <<>>)
    \/ \E u \in U, p \in P : register(c, "POST", u, p)
    \/ register_commit(c)
    \/ login(c, "GET", <<>>, <<>>)
    \/ \E u \in U, p \in P : login(c, "POST", u, p)
    \/ logout(c)
    \/ memo_redirect(c)
    \/ Deliver(c)

MemoRequest(c, T, X) ==
    \/ new_memo(c, "GET", <<>>, <<>>)
    \/ \E t \in T, x \in X : new_memo(c, "POST", t, x)
    \/ \E i \in MemoIds : edit_memo(c, i, "GET", <<>>, <<>>)
    \/ \E i \in MemoIds, t \in T, x \in X : edit_memo(c, i, "POST", t, x)
    \/ edit_memo_commit(c)
    \/ \E i \in MemoIds : delete_memo(c, i)
    \/ delete_memo_commit(c)

\* every route, requests served one after the other: one browser, which logs out
\* and in again to act as another user
Next ==
    \/ Tick
    \/ AuthRequest("c1", Names, Secrets)
    \/ MemoRequest("c1", Titles, Contents)

Spec == Init /\ [][Next]_vars

\* registration and login with every form input, the requests of two clients
\* interleaved between a handler's read and its commit
NextAuth == \E c \in Clients : AuthRequest(c, Usernames, Passwords)

SpecAuth == Init /\ [][NextAuth]_vars

\* every route, the requests of two clients interleaved between a handler's read
\* and its commit, at one reading of the clock and with one memo content
Notes == {<<"x">>}

NextRace == \E c \in Clients : AuthRequest(c, Names, Secrets) \/ MemoRequest(c, Titles, Notes)

SpecRace == Init /\ [][NextRace]_vars

\* ---------------------------------------------------------------- properties
LoggedIn(c) == session[c] # NoUser
EditRequest(c, i) == \E method \in Methods, t \in Titles, x \in Contents : edit_memo(c, i, method, t, x)
Redirect(to, flash) == [status |-> 302, to |-> to, flash |-> flash, rows |-> <<>>]

\* C1: an edit (GET or POST) or delete request of a logged-in user on the id of a
\* memo owned by another user returns at once with the redirect to the list and
\* the refusal notice, and leaves every memo as it was
C1_NonOwnerDenied ==
    [][\A c \in Clients, i \in MemoIds :
          (/\ LoggedIn(c)
           /\ \E m \in memos : m.id = i /\ m.user_id # session[c]
           /\ EditRequest(c, i) \/ delete_memo(c, i))
          => /\ memos' = memos
             /\ inflight'[c] = Done
             /\ resp'[c] = Redirect("index", "forbidden")]_vars

C1_Witness ==
    \E c \in Clients :
        /\ resp[c] = Redirect("index", "forbidden")
        /\ \E m \in memos : m.user_id # session[c]

\* C2: no two users ever have the same username, and when the insert of a register
\* request has run, also one that lost the race against another register request
\* for the same username, exactly one user has that username
C2_UniqueUsername ==
    [][/\ \A u1, u2 \in users' : u1.username = u2.username => u1 = u2
       /\ \A c \in Clients :
              register_commit(c)
              => Cardinality({u \in users' : u.username = inflight[c].username}) = 1]_vars

C2_Witness ==
    \E c \in Clients :
        /\ resp[c].flash = "IntegrityError"
        /\ Cardinality(users) = 1

RegisterRejected(c) ==
    /\ inflight'[c] = Done
    /\ resp'[c] = Redirect("register", "required")
    /\ users' = users

\* C3, as claimed: a register POST whose username or password is empty after
\* trimming is rejected and creates no user
C3_BlankAfterTrimRejected ==
    [][\A c \in Clients, u \in Usernames, p \in Passwords :
          ((strip(u) = <<>> \/ strip(p) = <<>>) /\ register(c, "POST", u, p))
          => RegisterRejected(c)]_vars

\* C3, amended: a register POST whose username is empty after trimming, or whose
\* password is empty as submitted, is rejected and creates no user
C3_MissingRejected ==
    [][\A c \in Clients, u \in Usernames, p \in Passwords :
          ((strip(u) = <<>> \/ p = <<>>) /\ register(c, "POST", u, p))
          => RegisterRejected(c)]_vars

C3_Witness ==
    \E c \in Clients :
        /\ resp[c] = Redirect("register", "required")
        /\ users # {}

Verifies(u, p) == u.password_hash = generate_password_hash(p, u.password_hash.salt)

\* the login POST of c binds the session to a user named `name` whose hash the
\* password verifies against, if there is one; otherwise the session is left as
\* it was and the answer is the one notice for bad credentials
LoginOutcome(c, name, p) ==
    LET ok == {u \in users : u.username = name /\ Verifies(u, p)}
    IN  /\ inflight'[c] = Done
        /\ IF ok # {}
           THEN /\ session'[c] \in {u.id : u \in ok}
                /\ resp'[c] = Redirect("index", "")
           ELSE /\ session'[c] = session[c]
                /\ resp'[c] = Redirect("login", "invalid")

\* C4, as claimed: the user is looked up by exactly the submitted username
C4_ExactUsername ==
    [][\A c \in Clients, n \in Usernames, p \in Passwords :
          login(c, "POST", n, p) => LoginOutcome(c, n, p)]_vars

\* C4, amended: the user is looked up by the submitted username with the
\* surrounding whitespace trimmed
C4_TrimmedUsername ==
    [][\A c \in Clients, n \in Usernames, p \in Passwords :
          login(c, "POST", n, p) => LoginOutcome(c, strip(n), p)]_vars

C4_Witness ==
    \E c, d \in Clients :
        /\ session[c] # NoUser
        /\ resp[c] = Redirect("index", "")
        /\ session[d] = NoUser
        /\ resp[d] = Redirect("login", "invalid")

\* C5: a request to a route that requires login, from a client whose session names
\* no user, is answered with the redirect to the login page and changes neither
\* the users nor the memos nor any session
C5_LoginRequired ==
    [][\A c \in Clients :
          (/\ ~LoggedIn(c)
           /\ inflight[c] = Idle /\ inflight'[c] # Idle
           /\ \/ index(c)
              \/ logout(c)
              \/ memo_redirect(c)
              \/ \E method \in Methods, t \in Titles, x \in Contents : new_memo(c, method, t, x)
              \/ \E i \in MemoIds : EditRequest(c, i) \/ delete_memo(c, i))
          => /\ inflight'[c] = Done
             /\ resp'[c] = Redirect("login", "please_login")
             /\ users' = users
             /\ memos' = memos
             /\ session' = session]_vars

\* the client was logged in before (it created the memo) and has logged out
C5_Witness ==
    \E c \in Clients :
        /\ resp[c] = Redirect("login", "please_login")
        /\ session[c] = NoUser
        /\ memos # {}

\* C6: every stored memo has a non-empty title
C6_TitleNonEmpty == \A m \in memos : m.title # <<>>

C8_DeletedIdStaysNotFound == [][\A i \in gone : i \notin memo_ids']_vars

\* C8, amended: after the delete of id i an edit or delete request on i returns
\* NotFound until a later create request is given id i, which only the sqlite
\* store does
C8_NotFoundUntilReissued ==
    [][/\ \A c \in Clients, i \in gone :
              (LoggedIn(c) /\ (EditRequest(c, i) \/ delete_memo(c, i)))
              => /\ inflight'[c] = Done
                 /\ resp'[c].status = 404
                 /\ memos' = memos
       /\ \A i \in gone :
              i \in memo_ids'
              => /\ dialect = "sqlite"
                 /\ \E c \in Clients, t \in Titles, x \in Contents : new_memo(c, "POST", t, x)]_vars

C8_Witness ==
    \E c \in Clients :
        /\ resp[c].status = 404
        /\ gone = MemoIds

\* C9: no request ends in an unhandled error, whatever the interleaving of the
\* requests
C9_NoUnhandledError == \A c \in Clients : resp[c].status # 500

\* an edit POST whose memo was deleted before its commit
C9_StaleEdit == \E c \in Clients : resp[c].flash = "StaleDataError"

\* C10: the commit of an edit changes nothing but the title and the content of the
\* memo with the edited id, which become the submitted ones; and no step changes
\* the owner or the created_at of a memo that stays stored
C10_EditFrame ==
    [][/\ \A c \in Clients :
              edit_memo_commit(c)
              => /\ users' = users
                 /\ memo_ids' = memo_ids
                 /\ Cardinality(memos') = Cardinality(memo_ids')
                 /\ \A m \in memos : m.id # inflight[c].memo.id => m \in memos'
                 /\ resp'[c].status = 302
                    => \E m \in memos' :
                           /\ m.id = inflight[c].memo.id
                           /\ m.title = inflight[c].title
                           /\ m.content = inflight[c].content
       /\ \A m \in memos, n \in memos' :
              m.id = n.id => n.user_id = m.user_id /\ n.created_at = m.created_at]_vars

C10_Witness ==
    \E c \in Clients :
        /\ resp[c] = Redirect("index", "updated")
        /\ Cardinality(memos) = 2
        /\ \E m \in memos : m.title = <<>> /\ m.content = <<"x">> /\ m.created_at < now

====
